---- MODULE Spec2Model ----
(***************************************************************************)
(* DeathHandler (src/death_handler.cc): the SIGSEGV/SIGABRT handler that   *)
(* forks a reporter, prints a symbolized stack trace and terminates the    *)
(* crashed process.  Processes are rows of the table proc; one action per  *)
(* step of a process.  Text is a sequence of symbols: single characters,   *)
(* and string literals of the source that the code only copies as a whole  *)
(* (an escape sequence "\033[..m" is the symbol "ESC[..m").                *)
(***************************************************************************)
EXTENDS Integers, Sequences, FiniteSets, TLC

\* ------------------------------------------------------------------ bounds
MaxProcs == 3
StackDepth == 4
MaxAllocs == 1
MaxObjects == 1
MaxVal == 20
MaxName == 520

\* --------------------------------------------------------- program constants
SIGSEGV == 11
SIGABRT == 6
ResSize == 32
MallocBufferSize == 512
LineSize == 4096
MsgSize == 512
pthread_self == 7

Pids == 1..MaxProcs
Signals == {SIGSEGV, SIGABRT}
Dispositions == {"SIG_DFL", "SIG_IGN", "OtherHandler", "SignalHandler"}
FrameCounts == {-1, 0, 1, 2, 100, 101}
AllocSizes == {16, 600}

VARIABLES
  QUICK_EXIT,
  generate_core_dump_, cleanup_, quick_exit_, frames_count_,
  cut_common_path_root_, cut_relative_paths_, append_pid_, color_output_,
  thread_safe_,
  proc, err, alive, prior, hookLog, conv, buf

cfgVars == <<generate_core_dump_, cleanup_, quick_exit_, frames_count_,
             cut_common_path_root_, cut_relative_paths_, append_pid_,
             color_output_, thread_safe_>>
vars == <<QUICK_EXIT, cfgVars, proc, err, alive, prior, hookLog, conv, buf>>

\* ------------------------------------------------------------ Safe:: text
Digit(d) ==
  <<"0","1","2","3","4","5","6","7","8","9","A","B","C","D","E","F">>[d + 1]

\* C integer division and remainder (truncation toward zero)
Quot(a, b) == IF a >= 0 THEN a \div b ELSE -((-a) \div b)
Rem(a, b) == a - b * Quot(a, b)

RECURSIVE itoaLoop(_, _, _)
itoaLoop(val, base, i) ==
  IF val # 0 /\ i # 0
    THEN itoaLoop(Quot(val, base), base, i - 1)
         \o <<IF Rem(val, base) >= 0 THEN Digit(Rem(val, base)) ELSE "UB">>
    ELSE <<>>

itoa(val) ==
  (IF val < 0 THEN <<"-">> ELSE <<>>) \o itoaLoop(val, 10, ResSize - 2)

RECURSIVE utoaLoop(_, _, _)
utoaLoop(val, base, i) ==
  IF val # 0 /\ i # 0
    THEN utoaLoop(val \div base, base, i - 1) \o <<Digit(val % base)>>
    ELSE <<>>

utoa(val, base) == utoaLoop(val, base, ResSize - 2)

ptoa(val) == <<"0", "x">> \o utoa(val, 16)

\* a call of a conversion of namespace Safe: the arguments and the text
\* returned
NoCall == [fn |-> "none", val |-> 0, base |-> 10, done |-> FALSE, res |-> <<>>]
Bases == {2, 8, 10, 16}
Calls ==
  {[NoCall EXCEPT !.fn = "itoa", !.val = v] : v \in (-MaxVal)..MaxVal}
  \cup {[NoCall EXCEPT !.fn = "utoa", !.val = v, !.base = b] :
           v \in 0..MaxVal, b \in Bases}
  \cup {[NoCall EXCEPT !.fn = "ptoa", !.val = v, !.base = 16] : v \in 0..MaxVal}

Safe_itoa ==
  /\ conv.fn = "itoa" /\ ~conv.done
  /\ conv' = [conv EXCEPT !.done = TRUE, !.res = itoa(conv.val)]
  /\ UNCHANGED <<buf, QUICK_EXIT, cfgVars, proc, err, alive, prior, hookLog>>

Safe_utoa ==
  /\ conv.fn = "utoa" /\ ~conv.done
  /\ conv' = [conv EXCEPT !.done = TRUE, !.res = utoa(conv.val, conv.base)]
  /\ UNCHANGED <<buf, QUICK_EXIT, cfgVars, proc, err, alive, prior, hookLog>>

Safe_ptoa ==
  /\ conv.fn = "ptoa" /\ ~conv.done
  /\ conv' = [conv EXCEPT !.done = TRUE, !.res = ptoa(conv.val)]
  /\ UNCHANGED <<buf, QUICK_EXIT, cfgVars, proc, err, alive, prior, hookLog>>

\* ------------------------------------------------- static buffers
\* a write into one of the static buffers of the reporter: "read" is
\* line[len] = 0 after len = read(pipefd[0], line, sizeof(line)), "msg" is
\* the function-name line built in msg[512] for a name of len characters;
\* at: the index of line[] that receives the terminator, used: the bytes
\* stored into msg[], its terminator included
NoWrite ==
  [op |-> "none", len |-> 0, ppid |-> 0, done |-> FALSE, at |-> 0, used |-> 0]
ParentPids == {1, 4194304}
Writes ==
  {[NoWrite EXCEPT !.op = "read", !.len = n] : n \in (-1)..LineSize}
  \cup {[NoWrite EXCEPT !.op = "msg", !.len = n, !.ppid = q] :
           n \in 0..MaxName, q \in ParentPids}

\* ------------------------------------------------------------ process table
NoProc ==
  [pc |-> "free", ppid |-> 0, sig |-> 0, mask |-> {},
   sa |-> [s \in Signals |-> "SIG_DFL"],
   malloc_hook |-> "NULL", free_hook |-> "NULL",
   oldMallocHook |-> "NULL", oldFreeHook |-> "NULL",
   forkedPid |-> 0, trace_size |-> 0, dup |-> FALSE, stackOffset |-> 0,
   i |-> 0, allocs |-> 0,
   pid |-> 0, image |-> <<>>, addr |-> 0, name |-> <<>>, line |-> <<>>,
   cwd |-> <<>>, out |-> <<0, 0>>, pipe |-> <<>>, status |-> "none",
   origin |-> 0, role |-> "none",
   pc2 |-> "none", sig2 |-> 0, forkedPid2 |-> 0]

App == 1

\* the static initializers; d: the signal dispositions the process starts
\* with, call: the conversion that is going to be called, w: the write into
\* a static buffer that is going to happen
InitWrites(d, call, w) ==
  /\ QUICK_EXIT \in BOOLEAN
  /\ generate_core_dump_ = TRUE
  /\ cleanup_ = TRUE
  /\ quick_exit_ = FALSE
  /\ frames_count_ = 16
  /\ cut_common_path_root_ = TRUE
  /\ cut_relative_paths_ = TRUE
  /\ append_pid_ = FALSE
  /\ color_output_ = TRUE
  /\ thread_safe_ = TRUE
  /\ proc = [p \in Pids |->
               IF p = App
                 THEN [NoProc EXCEPT !.pc = "app", !.role = "app", !.sa = d]
                 ELSE NoProc]
  /\ err = <<>>
  /\ alive = 0
  /\ prior = [s \in Signals |-> "SIG_DFL"]
  /\ hookLog = {}
  /\ conv = call
  /\ buf = w

InitCalls(d, call) == InitWrites(d, call, NoWrite)

InitWith(d) == InitCalls(d, NoCall)

Init == InitWith([s \in Signals |-> "SIG_DFL"])

\* a process ends: it stays a zombie until its parent reaps it; its children
\* are orphaned (getppid() changes), and init reaps every orphan that ends
\* (the status of a reaped orphan stays readable until its slot is reused)
Exited(t, p, st) ==
  [q \in Pids |->
     IF q = p
       THEN IF p # App /\ t[p].ppid = 0 THEN [NoProc EXCEPT !.status = st]
            ELSE [t[q] EXCEPT !.pc = "dead", !.status = st]
     ELSE IF t[q].ppid = p /\ t[q].pc = "dead" THEN NoProc
     ELSE IF t[q].ppid = p /\ t[q].pc # "free" THEN [t[q] EXCEPT !.ppid = 0]
     ELSE t[q]]

\* delivery of sig to SignalHandler: sig is blocked while the handler runs
EnterHandler(t, p, sig) ==
  [t EXCEPT ![p].pc = "H_fork", ![p].sig = sig, ![p].mask = @ \cup {sig}]

\* abort(): unblocks SIGABRT and raises it
Abort(t, p) ==
  LET u == [t EXCEPT ![p].mask = @ \ {SIGABRT}] IN
  IF u[p].sa[SIGABRT] = "SignalHandler"
    THEN EnterHandler(u, p, SIGABRT)
    ELSE Exited(u, p, "SIGABRT")

\* ------------------------------------------------------------ configuration
AppRuns == proc[App].pc = "app"

set_generate_core_dump(value) ==
  /\ AppRuns
  /\ generate_core_dump_' = value
  /\ UNCHANGED <<buf, conv, QUICK_EXIT, cleanup_, quick_exit_, frames_count_,
                 cut_common_path_root_, cut_relative_paths_, append_pid_,
                 color_output_, thread_safe_, proc, err, alive, prior, hookLog>>

set_cleanup(value) ==
  /\ AppRuns
  /\ cleanup_' = value
  /\ UNCHANGED <<buf, conv, QUICK_EXIT, generate_core_dump_, quick_exit_, frames_count_,
                 cut_common_path_root_, cut_relative_paths_, append_pid_,
                 color_output_, thread_safe_, proc, err, alive, prior, hookLog>>

set_quick_exit(value) ==
  /\ AppRuns
  /\ QUICK_EXIT
  /\ quick_exit_' = value
  /\ UNCHANGED <<buf, conv, QUICK_EXIT, generate_core_dump_, cleanup_, frames_count_,
                 cut_common_path_root_, cut_relative_paths_, append_pid_,
                 color_output_, thread_safe_, proc, err, alive, prior, hookLog>>

\* faulty variant: the assertion is missing
set_frames_count_unchecked(value) ==
  /\ AppRuns
  /\ frames_count_' = value
  /\ UNCHANGED <<buf, conv, QUICK_EXIT, generate_core_dump_, cleanup_, quick_exit_,
                 cut_common_path_root_, cut_relative_paths_, append_pid_,
                 color_output_, thread_safe_, proc, err, alive, prior, hookLog>>

\* assert(value > 0 && value <= 100): a failed assertion calls abort()
set_frames_count(value) ==
  /\ AppRuns
  /\ \/ /\ value > 0 /\ value <= 100
        /\ frames_count_' = value
        /\ UNCHANGED proc
     \/ /\ ~(value > 0 /\ value <= 100)
        /\ proc' = Abort(proc, App)
        /\ UNCHANGED frames_count_
  /\ UNCHANGED <<buf, conv, QUICK_EXIT, generate_core_dump_, cleanup_, quick_exit_,
                 cut_common_path_root_, cut_relative_paths_, append_pid_,
                 color_output_, thread_safe_, err, alive, prior, hookLog>>

set_cut_common_path_root(value) ==
  /\ AppRuns
  /\ cut_common_path_root_' = value
  /\ UNCHANGED <<buf, conv, QUICK_EXIT, generate_core_dump_, cleanup_, quick_exit_,
                 frames_count_, cut_relative_paths_, append_pid_,
                 color_output_, thread_safe_, proc, err, alive, prior, hookLog>>

set_cut_relative_paths(value) ==
  /\ AppRuns
  /\ cut_relative_paths_' = value
  /\ UNCHANGED <<buf, conv, QUICK_EXIT, generate_core_dump_, cleanup_, quick_exit_,
                 frames_count_, cut_common_path_root_, append_pid_,
                 color_output_, thread_safe_, proc, err, alive, prior, hookLog>>

set_append_pid(value) ==
  /\ AppRuns
  /\ append_pid_' = value
  /\ UNCHANGED <<buf, conv, QUICK_EXIT, generate_core_dump_, cleanup_, quick_exit_,
                 frames_count_, cut_common_path_root_, cut_relative_paths_,
                 color_output_, thread_safe_, proc, err, alive, prior, hookLog>>

set_color_output(value) ==
  /\ AppRuns
  /\ color_output_' = value
  /\ UNCHANGED <<buf, conv, QUICK_EXIT, generate_core_dump_, cleanup_, quick_exit_,
                 frames_count_, cut_common_path_root_, cut_relative_paths_,
                 append_pid_, thread_safe_, proc, err, alive, prior, hookLog>>

set_thread_safe(value) ==
  /\ AppRuns
  /\ thread_safe_' = value
  /\ UNCHANGED <<buf, conv, QUICK_EXIT, generate_core_dump_, cleanup_, quick_exit_,
                 frames_count_, cut_common_path_root_, cut_relative_paths_,
                 append_pid_, color_output_, proc, err, alive, prior, hookLog>>

\* ---------------------------------------------------------- SignalInstaller
\* DeathHandler::DeathHandler(): sigaction(sig, &sa, NULL) for both signals
Construct ==
  /\ AppRuns
  /\ alive < MaxObjects
  /\ prior' = proc[App].sa
  /\ proc' = [proc EXCEPT ![App].sa = [s \in Signals |-> "SignalHandler"]]
  /\ alive' = alive + 1
  /\ UNCHANGED <<buf, conv, QUICK_EXIT, cfgVars, err, hookLog>>

\* DeathHandler::~DeathHandler(): sa_handler = SIG_DFL for both signals
Destruct ==
  /\ AppRuns
  /\ alive > 0
  /\ proc' = [proc EXCEPT ![App].sa = [s \in Signals |-> "SIG_DFL"]]
  /\ alive' = alive - 1
  /\ UNCHANGED <<buf, conv, QUICK_EXIT, cfgVars, err, prior, hookLog>>

\* ------------------------------------------------------------------- text
Escapes == {"ESC[31;1m", "ESC[32;1m", "ESC[33;1m", "ESC[34;1m", "ESC[0m"}

\* strstr for a one-character needle: first position of c in s, 0 if none
IndexOf(s, c) ==
  IF \E k \in 1..Len(s) : s[k] = c
    THEN CHOOSE k \in 1..Len(s) : s[k] = c /\ \A j \in 1..(k - 1) : s[j] # c
    ELSE 0

IsAt(s, k, pat) ==
  /\ k >= 1
  /\ k + Len(pat) - 1 <= Len(s)
  /\ SubSeq(s, k, k + Len(pat) - 1) = pat

\* strstr: first position of pat in s, 0 if none
StrStr(s, pat) ==
  IF \E k \in 1..Len(s) : IsAt(s, k, pat)
    THEN CHOOSE k \in 1..Len(s) :
           IsAt(s, k, pat) /\ \A j \in 1..(k - 1) : ~IsAt(s, j, pat)
    ELSE 0

Tail_(s, k) == SubSeq(s, k, Len(s))

\* header line of the report (msg[128])
HeaderMsg(sig, ppid) ==
  IF color_output_
    THEN <<"ESC[31;1m">>
         \o (CASE sig = SIGSEGV -> <<"Segmentation fault">>
               [] sig = SIGABRT -> <<"Aborted">>
               [] OTHER -> <<"Caught signal ">> \o itoa(sig))
         \o <<"ESC[0m", " (thread ", "ESC[33;1m">> \o utoa(pthread_self, 10)
         \o <<"ESC[0m", ", pid ", "ESC[33;1m">> \o itoa(ppid)
         \o <<"ESC[0m", ")">>
    ELSE <<"Segmentation fault", " (thread ">> \o utoa(pthread_self, 10)
         \o <<", pid ">> \o itoa(ppid) \o <<")">>

\* addr2line(), after the read: what the returned buffer holds.
\* crash: *(strstr(line, "\n") + 1) with no line break dereferences NULL + 1
addr2lineText(line, image, addr) ==
  IF Len(line) > 0 /\ line[1] = "?"
    THEN [crash |-> FALSE,
          line |-> <<"ESC[32;1m">> \o ptoa(addr) \o <<"ESC[0m", " at ">>
                   \o image \o <<" ">>]
    ELSE IF IndexOf(line, "\n") = 0
      THEN [crash |-> TRUE, line |-> line]
      ELSE LET nl == IndexOf(line, "\n") IN
           IF nl < Len(line) /\ line[nl + 1] = "?"
             THEN [crash |-> FALSE,
                   line |-> SubSeq(line, 1, nl) \o image \o <<":">>
                            \o ptoa(addr) \o <<"\n">>]
             ELSE [crash |-> FALSE, line |-> line]

\* the bracketed function-name line (msg[512])
NameMsg(name, ppid) ==
  (IF color_output_ THEN <<"ESC[34;1m">> ELSE <<>>)
  \o <<"[">> \o name \o <<"]">>
  \o (IF append_pid_
        THEN (IF color_output_ THEN <<"ESC[0m", "ESC[33;1m">> ELSE <<>>)
             \o <<" ", "(">> \o itoa(ppid) \o <<")">>
             \o (IF color_output_ THEN <<"ESC[0m">> ELSE <<>>)
             \o <<"\n">>
        ELSE (IF color_output_ THEN <<"ESC[0m">> ELSE <<>>) \o <<"\n">>)

\* the bytes of a symbol: an escape sequence is "\033[", its numbers and "m"
ByteLen(sym) ==
  IF sym = "ESC[0m" THEN 4
  ELSE IF sym \in Escapes THEN 7
  ELSE IF sym = " at " THEN 4
  ELSE 1

\* strlen() of a text: the bytes of its symbols
StrLen(text) ==
  LET n(b) == Cardinality({k \in 1..Len(text) : ByteLen(text[k]) = b})
  IN  n(1) + 4 * n(4) + 7 * n(7)

\* a function name of n characters
NameOfLen(n) == [k \in 1..n |-> "f"]

\* line[j] for the C index j: line points just behind the function name in
\* the static buffer, so negative indices read the terminator and the name,
\* and indices before the name lie outside the buffer
LineAt(name, line, j) ==
  IF j >= 0 THEN (IF j < Len(line) THEN line[j + 1] ELSE "NUL")
  ELSE IF j = -1 THEN "NUL"
  ELSE IF -j - 1 <= Len(name) THEN name[Len(name) + j + 2]
  ELSE "OUT"

\* for (cpi = 0; cwd[cpi] == line[cpi]; cpi++) {}
RECURSIVE CommonLen(_, _, _)
CommonLen(cwd, line, cpi) ==
  IF cpi < Len(cwd) /\ cpi < Len(line) /\ cwd[cpi + 1] = line[cpi + 1]
    THEN CommonLen(cwd, line, cpi + 1)
    ELSE cpi

\* for (cpi; line[cpi - 1] != '/'; cpi--) {}; -1000 when the scan leaves
\* the buffer
RECURSIVE ScanBack(_, _, _)
ScanBack(name, line, cpi) ==
  IF LineAt(name, line, cpi - 1) = "/" THEN cpi
  ELSE IF LineAt(name, line, cpi - 1) = "OUT" THEN -1000
  ELSE ScanBack(name, line, cpi - 1)

\* the lowest index of line that the two loops read
RECURSIVE ScanLow(_, _, _)
ScanLow(name, line, cpi) ==
  IF LineAt(name, line, cpi - 1) \in {"/", "OUT"} THEN cpi - 1
  ELSE ScanLow(name, line, cpi - 1)

\* Remove the common path root: the number of characters cut and whether
\* the scan read outside the buffer
CutCommon(name, line, cwd) ==
  LET c0 == CommonLen(cwd, line, 0)
      over == c0 = Len(cwd) /\ c0 = Len(line)
      cpi == ScanBack(name, line, c0)
  IN  [ub |-> over \/ cpi = -1000,
       cut |-> IF cpi > 1 THEN cpi ELSE 0]

\* while (!strncmp(pathCutPos, "../", 3)) pathCutPos += 3
RECURSIVE SkipUp(_, _)
SkipUp(line, pos) ==
  IF IsAt(line, pos, <<".", ".", "/">>) THEN SkipUp(line, pos + 3) ELSE pos

\* Remove relative path root
CutRelative(line) ==
  LET k == StrStr(line, <<".", ".", "/">>) IN
  IF k # 0 THEN Tail_(line, SkipUp(line, k + 3)) ELSE line

\* Mark line number
MarkNumber(line) ==
  LET k == IndexOf(line, ":") IN
  IF k # 0
    THEN SubSeq(line, 1, k - 1) \o <<"ESC[32;1m">>
         \o SubSeq(line, k, Len(line) - 1) \o <<"ESC[0m", "\n">>
    ELSE line

\* the location text behind the function name, as displayed
LocationText(name, line, cwd) ==
  LET a == IF cut_common_path_root_
             THEN Tail_(line, CutCommon(name, line, cwd).cut + 1) ELSE line
      b == IF cut_relative_paths_ THEN CutRelative(a) ELSE a
  IN  IF color_output_ THEN MarkNumber(b) ELSE b

\* faulty variant: the pid is never appended
FrameLine_nopid(line, ppid) == SubSeq(line, 1, Len(line) - 1) \o <<"\n">>

\* Overwrite the new line char, append pid, add the line break
FrameLine(line, ppid) ==
  SubSeq(line, 1, Len(line) - 1)
  \o (IF append_pid_
        THEN <<" ">> \o (IF color_output_ THEN <<"ESC[33;1m">> ELSE <<>>)
             \o <<"(">> \o itoa(ppid) \o <<")">>
             \o (IF color_output_ THEN <<"ESC[0m">> ELSE <<>>)
        ELSE <<>>)
  \o <<"\n">>

\* -------------------------------------------------------------- test hooks
\* the allocation traps of TEST(DeathHandler, malloc)
InstallTraps ==
  /\ AppRuns
  /\ proc[App].malloc_hook = "NULL"
  /\ proc' = [proc EXCEPT ![App].malloc_hook = "malloc_hook",
                          ![App].free_hook = "free_hook"]
  /\ UNCHANGED <<buf, conv, QUICK_EXIT, cfgVars, err, alive, prior, hookLog>>

\* a fatal signal reaches the installed handler (SEGMENTATION_FAULT(),
\* assert(false) of the tests)
Fault(sig) ==
  /\ AppRuns
  /\ proc[App].sa[sig] = "SignalHandler"
  /\ proc' = EnterHandler(proc, App, sig)
  /\ UNCHANGED <<buf, conv, QUICK_EXIT, cfgVars, err, alive, prior, hookLog>>

\* ------------------------------------------------------------ process steps
FreePids == {q \in Pids : proc[q].pc = "free"}
NewPid == CHOOSE q \in FreePids : \A r \in FreePids : q <= r
Live(q) == proc[q].pc \notin {"free", "dead"}

\* where the writes of q to its stderr arrive
ToTerminal(q) == proc[q].out = <<0, 0>>
Broken == <<-1, 0>>
CanWrite(q) == proc[q].out # Broken

\* write(STDERR_FILENO, msg, len) of q that succeeds
\* (kind names the print statement, parent and sig the crash reported)
ErrWrite(q, kind, msg) ==
  IF ToTerminal(q)
    THEN Append(err, [kind |-> kind, parent |-> proc[q].origin,
                      sig |-> proc[q].sig, msg |-> msg])
    ELSE err
PipeWrite(t, q, msg) ==
  IF ToTerminal(q) \/ ~CanWrite(q) THEN t
  ELSE [t EXCEPT ![proc[q].out[1]].pipe = Append(@, msg)]

\* a real SIGSEGV: a blocked or unhandled one kills the process
Segv(t, p) ==
  IF SIGSEGV \in t[p].mask \/ t[p].sa[SIGSEGV] # "SignalHandler"
    THEN Exited(t, p, "SIGSEGV")
    ELSE EnterHandler(t, p, SIGSEGV)

\* a failed assert(): the message goes to stderr, then abort()
AssertFail(t, p) == Abort(PipeWrite(t, p, <<"Assertion failed", "\n">>), p)

\* checked(write(...)) <= 0: _Exit(EXIT_FAILURE)
PrintPcs == {"C_header", "C_trace", "C_name", "C_line"}
WriteFails(c) ==
  /\ proc[c].pc \in PrintPcs
  /\ proc[c].pc = "C_name" => IndexOf(proc[c].line, "\n") # 0
  /\ proc' = Exited(proc, c, "_Exit1")
  /\ UNCHANGED <<buf, conv, QUICK_EXIT, cfgVars, err, alive, prior, hookLog>>

\* pid_t forkedPid = fork();
H_fork(p) ==
  /\ proc[p].pc = "H_fork"
  /\ FreePids # {}
  /\ LET c == NewPid IN
       proc' = [proc EXCEPT
                  ![p].pc = "P_branch", ![p].forkedPid = c,
                  ![c] = [proc[p] EXCEPT !.pc = "C_dup2", !.ppid = p,
                                         !.forkedPid = 0, !.pipe = <<>>,
                                         !.origin = p, !.role = "reporter",
                                         !.pc2 = "none", !.sig2 = 0,
                                         !.forkedPid2 = 0]]
  /\ UNCHANGED <<buf, conv, QUICK_EXIT, cfgVars, err, alive, prior, hookLog>>

\* fork() returns -1
H_forkFails(p) ==
  /\ proc[p].pc = "H_fork"
  /\ proc' = [proc EXCEPT ![p].pc = "P_branch", ![p].forkedPid = -1]
  /\ UNCHANGED <<buf, conv, QUICK_EXIT, cfgVars, err, alive, prior, hookLog>>

\* ---- parent branch
\* kill(getpid(), SIGSTOP)
P_stop(p) ==
  /\ proc[p].pc = "P_branch"
  /\ thread_safe_
  /\ proc' = [proc EXCEPT ![p].pc = "P_stopped"]
  /\ UNCHANGED <<buf, conv, QUICK_EXIT, cfgVars, err, alive, prior, hookLog>>

\* waitpid(forkedPid, &status, WNOHANG), after the process was continued
P_waitNoHang(p) ==
  /\ proc[p].pc = "P_continued"
  /\ LET c == proc[p].forkedPid IN
       proc' = IF c > 0 /\ proc[c].pc = "dead" /\ proc[c].ppid = p
                 THEN [proc EXCEPT ![p].pc = "P_policy", ![c] = NoProc]
                 ELSE [proc EXCEPT ![p].pc = "P_policy"]
  /\ UNCHANGED <<buf, conv, QUICK_EXIT, cfgVars, err, alive, prior, hookLog>>

Children(p) == {q \in Pids : proc[q].ppid = p /\ proc[q].pc # "free"}

\* faulty variant: the wait does not block
P_wait_nohang(p) ==
  /\ proc[p].pc = "P_branch"
  /\ ~thread_safe_
  /\ proc' = [proc EXCEPT ![p].pc = "P_policy"]
  /\ UNCHANGED <<buf, conv, QUICK_EXIT, cfgVars, err, alive, prior, hookLog>>

\* waitpid(forkedPid, &status, 0)
P_wait(p) ==
  /\ proc[p].pc = "P_branch"
  /\ ~thread_safe_
  /\ LET c == proc[p].forkedPid IN
       IF c > 0
         THEN /\ proc[c].pc = "dead"
              /\ proc' = [proc EXCEPT ![p].pc = "P_policy", ![c] = NoProc]
         ELSE LET z == {q \in Children(p) : proc[q].pc = "dead"} IN
              /\ ~(Children(p) # {} /\ z = {})
              /\ proc' = IF z = {} THEN [proc EXCEPT ![p].pc = "P_policy"]
                         ELSE [proc EXCEPT ![p].pc = "P_policy",
                                 ![CHOOSE q \in z : TRUE] = NoProc]
  /\ UNCHANGED <<buf, conv, QUICK_EXIT, cfgVars, err, alive, prior, hookLog>>

\* ::quick_exit(EXIT_FAILURE)
P_quick_exit(p) ==
  /\ proc[p].pc = "P_policy"
  /\ QUICK_EXIT /\ quick_exit_
  /\ proc' = Exited(proc, p, "quick_exit")
  /\ UNCHANGED <<buf, conv, QUICK_EXIT, cfgVars, err, alive, prior, hookLog>>

\* faulty variant: generate_core_dump_ is tested before quick_exit_
P_core_dump_first(p) ==
  /\ proc[p].pc = "P_policy"
  /\ generate_core_dump_
  /\ proc' = [proc EXCEPT ![p].pc = "P_abort", ![p].sa[SIGABRT] = "SIG_DFL"]
  /\ UNCHANGED <<buf, conv, QUICK_EXIT, cfgVars, err, alive, prior, hookLog>>

\* faulty variant: SIGABRT keeps the installed handler
P_core_dump_noreset(p) ==
  /\ proc[p].pc = "P_policy"
  /\ ~(QUICK_EXIT /\ quick_exit_)
  /\ generate_core_dump_
  /\ proc' = [proc EXCEPT ![p].pc = "P_abort"]
  /\ UNCHANGED <<buf, conv, QUICK_EXIT, cfgVars, err, alive, prior, hookLog>>

\* sigaction(SIGABRT, &sa, NULL) with sa_handler = SIG_DFL
P_core_dump(p) ==
  /\ proc[p].pc = "P_policy"
  /\ ~(QUICK_EXIT /\ quick_exit_)
  /\ generate_core_dump_
  /\ proc' = [proc EXCEPT ![p].pc = "P_abort", ![p].sa[SIGABRT] = "SIG_DFL"]
  /\ UNCHANGED <<buf, conv, QUICK_EXIT, cfgVars, err, alive, prior, hookLog>>

\* abort()
P_abort(p) ==
  /\ proc[p].pc = "P_abort"
  /\ proc' = Abort(proc, p)
  /\ UNCHANGED <<buf, conv, QUICK_EXIT, cfgVars, err, alive, prior, hookLog>>

\* exit(EXIT_FAILURE)
P_exit(p) ==
  /\ proc[p].pc = "P_policy"
  /\ ~(QUICK_EXIT /\ quick_exit_)
  /\ ~generate_core_dump_
  /\ cleanup_
  /\ proc' = Exited(proc, p, "exit")
  /\ UNCHANGED <<buf, conv, QUICK_EXIT, cfgVars, err, alive, prior, hookLog>>

\* _Exit(EXIT_FAILURE)
P_Exit(p) ==
  /\ proc[p].pc = "P_policy"
  /\ ~(QUICK_EXIT /\ quick_exit_)
  /\ ~generate_core_dump_
  /\ ~cleanup_
  /\ proc' = Exited(proc, p, "_Exit")
  /\ UNCHANGED <<buf, conv, QUICK_EXIT, cfgVars, err, alive, prior, hookLog>>

\* ---- child branch: the reporter
Images == {<<"/", "b">>}
Cwds == {<<"/", "w">>}

\* dup2(STDERR_FILENO, STDOUT_FILENO)
C_dup2(c) ==
  /\ proc[c].pc = "C_dup2"
  /\ proc' = [proc EXCEPT ![c].pc = "C_header"]
  /\ UNCHANGED <<buf, conv, QUICK_EXIT, cfgVars, err, alive, prior, hookLog>>

\* dup2 fails: "Failed to redirect stdout to stderr\n" is printed
C_dup2Fails(c) ==
  /\ proc[c].pc = "C_dup2"
  /\ CanWrite(c)
  /\ err' = ErrWrite(c, "note", <<"Failed to redirect stdout to stderr", "\n">>)
  /\ proc' = [PipeWrite(proc, c, <<"Failed to redirect stdout to stderr", "\n">>)
                EXCEPT ![c].pc = "C_header"]
  /\ UNCHANGED <<buf, conv, QUICK_EXIT, cfgVars, alive, prior, hookLog>>

\* the header: Safe::print2stderr(msg)
C_header(c) ==
  /\ proc[c].pc = "C_header"
  /\ CanWrite(c)
  /\ LET msg == HeaderMsg(proc[c].sig, proc[c].ppid) IN
       /\ err' = ErrWrite(c, "header", msg)
       /\ proc' = [PipeWrite(proc, c, msg) EXCEPT ![c].pc = "C_trace"]
  /\ UNCHANGED <<buf, conv, QUICK_EXIT, cfgVars, alive, prior, hookLog>>

\* faulty variant: the hooks are not replaced before backtrace()
C_trace_keepHooks(c) ==
  /\ proc[c].pc = "C_trace"
  /\ CanWrite(c)
  /\ err' = ErrWrite(c, "trace", <<"\n", "Stack trace:", "\n">>)
  /\ proc' = [PipeWrite(proc, c, <<"\n", "Stack trace:", "\n">>) EXCEPT
                ![c].pc = "C_backtrace",
                ![c].oldMallocHook = proc[c].malloc_hook,
                ![c].oldFreeHook = proc[c].free_hook,
                ![c].allocs = 0]
  /\ UNCHANGED <<buf, conv, QUICK_EXIT, cfgVars, alive, prior, hookLog>>

\* Safe::print2stderr("\nStack trace:\n"), then the hooks are replaced
C_trace(c) ==
  /\ proc[c].pc = "C_trace"
  /\ CanWrite(c)
  /\ err' = ErrWrite(c, "trace", <<"\n", "Stack trace:", "\n">>)
  /\ proc' = [PipeWrite(proc, c, <<"\n", "Stack trace:", "\n">>) EXCEPT
                ![c].pc = "C_backtrace",
                ![c].oldMallocHook = proc[c].malloc_hook,
                ![c].oldFreeHook = proc[c].free_hook,
                ![c].malloc_hook = "MallocHook",
                ![c].free_hook = "NULL",
                ![c].allocs = 0]
  /\ UNCHANGED <<buf, conv, QUICK_EXIT, cfgVars, alive, prior, hookLog>>

\* MallocHook(size, caller)
MallocHook(t, c, size) ==
  IF size > MallocBufferSize
    THEN Exited(PipeWrite(t, c, <<"malloc() replacement function cannot return a memory block larger than 512 bytes", "\n">>),
                c, "_Exit1")
    ELSE [t EXCEPT ![c].allocs = @ + 1]

\* backtrace() calls malloc(size): glibc calls the hook in __malloc_hook
C_malloc(c, size) ==
  /\ proc[c].pc = "C_backtrace"
  /\ proc[c].allocs < MaxAllocs
  /\ LET h == proc[c].malloc_hook IN
       /\ hookLog' = hookLog \cup {IF h = "NULL" THEN "malloc" ELSE h}
       /\ proc' = CASE h = "MallocHook" -> MallocHook(proc, c, size)
                    [] h = "malloc_hook" -> Exited(proc, c, "_Exit1")
                    [] OTHER -> [proc EXCEPT ![c].allocs = @ + 1]
       /\ err' = IF h = "MallocHook" /\ size > MallocBufferSize
                   THEN ErrWrite(c, "note", <<"malloc() replacement function cannot return a memory block larger than 512 bytes", "\n">>)
                   ELSE err
  /\ UNCHANGED <<buf, conv, QUICK_EXIT, cfgVars, alive, prior>>

\* backtrace() calls free(): glibc calls the hook in __free_hook
C_free(c) ==
  /\ proc[c].pc = "C_backtrace"
  /\ proc[c].allocs < MaxAllocs
  /\ LET h == proc[c].free_hook IN
       /\ hookLog' = hookLog \cup {IF h = "NULL" THEN "free" ELSE h}
       /\ proc' = IF h = "free_hook" THEN Exited(proc, c, "_Exit1")
                  ELSE [proc EXCEPT ![c].allocs = @ + 1]
  /\ UNCHANGED <<buf, conv, QUICK_EXIT, cfgVars, err, alive, prior>>

\* int trace_size = backtrace(trace, frames_count_ + 2) returns n frames;
\* the hooks are put back; dup: trace[2] equals the corrected trace[1]
C_backtrace(c, n, dup) ==
  /\ proc[c].pc = "C_backtrace"
  /\ n <= frames_count_ + 2
  /\ n < 3 => ~dup
  /\ proc' = [proc EXCEPT ![c].pc = "C_check",
                          ![c].trace_size = n, ![c].dup = dup,
                          ![c].malloc_hook = proc[c].oldMallocHook,
                          ![c].free_hook = proc[c].oldFreeHook]
  /\ UNCHANGED <<buf, conv, QUICK_EXIT, cfgVars, err, alive, prior, hookLog>>

\* faulty variant: abort() without the reset of SIGABRT
C_tooFew_noreset(c) ==
  /\ proc[c].pc = "C_check"
  /\ proc[c].trace_size <= 2
  /\ proc' = Abort(proc, c)
  /\ UNCHANGED <<buf, conv, QUICK_EXIT, cfgVars, err, alive, prior, hookLog>>

\* trace_size <= 2: SIGABRT is reset to SIG_DFL and abort() is called
C_tooFew(c) ==
  /\ proc[c].pc = "C_check"
  /\ proc[c].trace_size <= 2
  /\ proc' = Abort([proc EXCEPT ![c].sa[SIGABRT] = "SIG_DFL"], c)
  /\ UNCHANGED <<buf, conv, QUICK_EXIT, cfgVars, err, alive, prior, hookLog>>

\* readlink, getcwd, strcat(cwd, "/"), stackOffset
C_check(c, cwd) ==
  /\ proc[c].pc = "C_check"
  /\ proc[c].trace_size > 2
  /\ LET stackOffset == IF proc[c].dup THEN 2 ELSE 1 IN
       proc' = [proc EXCEPT ![c].pc = "C_loop", ![c].cwd = cwd \o <<"/">>,
                            ![c].stackOffset = stackOffset,
                            ![c].i = stackOffset]
  /\ UNCHANGED <<buf, conv, QUICK_EXIT, cfgVars, err, alive, prior, hookLog>>

\* assert(getcwd(cwd, sizeof(cwd)) != NULL) fails
C_getcwdFails(c) ==
  /\ proc[c].pc = "C_check"
  /\ proc[c].trace_size > 2
  /\ err' = ErrWrite(c, "assert", <<"Assertion failed", "\n">>)
  /\ proc' = AssertFail(proc, c)
  /\ UNCHANGED <<buf, conv, QUICK_EXIT, cfgVars, alive, prior, hookLog>>

\* for (int i = stackOffset; i < trace_size; i++): dladdr, then addr2line
\* up to its fork
C_loop(c, image, addr) ==
  /\ proc[c].pc = "C_loop"
  /\ proc[c].i < proc[c].trace_size
  /\ FreePids # {}
  /\ LET r == NewPid IN
       proc' = [proc EXCEPT
                  ![c].pc = "C_read", ![c].pid = r, ![c].image = image,
                  ![c].addr = addr, ![c].pipe = <<>>,
                  ![r] = [proc[c] EXCEPT !.pc = "R_exec", !.ppid = c,
                                         !.out = <<c, proc[c].i>>,
                                         !.pipe = <<>>, !.origin = c,
                                         !.role = "resolver"]]
  /\ UNCHANGED <<buf, conv, QUICK_EXIT, cfgVars, err, alive, prior, hookLog>>

\* the fork() of addr2line returns -1
C_forkFails(c, image, addr) ==
  /\ proc[c].pc = "C_loop"
  /\ proc[c].i < proc[c].trace_size
  /\ proc' = [proc EXCEPT ![c].pc = "C_read", ![c].pid = -1,
                          ![c].image = image, ![c].addr = addr,
                          ![c].pipe = <<>>]
  /\ UNCHANGED <<buf, conv, QUICK_EXIT, cfgVars, err, alive, prior, hookLog>>

\* assert(pipe(pipefd) == 0) fails
C_pipeFails(c) ==
  /\ proc[c].pc = "C_loop"
  /\ proc[c].i < proc[c].trace_size
  /\ err' = ErrWrite(c, "assert", <<"Assertion failed", "\n">>)
  /\ proc' = AssertFail(proc, c)
  /\ UNCHANGED <<buf, conv, QUICK_EXIT, cfgVars, alive, prior, hookLog>>

\* ---- the resolver subprocess of addr2line()
OutOk == <<"f", "\n", "/", "w", "/", "a", ":", "3", "\n">>
OutUnknownFn == <<"?", "?", "\n", "?", "?", ":", "0", "\n">>
OutUnknownLoc == <<"f", "\n", "?", "?", ":", "0", "\n">>
OutRelative == <<"g", "\n", ".", ".", "/", "s", ":", "5", "\n">>
OutNoBreak == <<"f">>
OutEmpty == <<>>
OutInnerUp == <<"h", "\n", "/", "x", "/", ".", ".", "/", "s", ":", "5", "\n">>
OutSibling == <<"k", "\n", "/", "w", "x", "/", "a", ":", "3", "\n">>

\* execlp("addr2line", ...) succeeds: the tool writes its output and exits
R_exec(r, output) ==
  /\ proc[r].pc = "R_exec"
  /\ proc' = Exited(IF output = <<>> THEN proc
                    ELSE PipeWrite(proc, r, output), r, "exit0")
  /\ UNCHANGED <<buf, conv, QUICK_EXIT, cfgVars, err, alive, prior, hookLog>>

\* assert(execlp(...) != -1) fails
R_execFails(r) ==
  /\ proc[r].pc = "R_exec"
  /\ err' = ErrWrite(r, "assert", <<"Assertion failed", "\n">>)
  /\ proc' = AssertFail(proc, r)
  /\ UNCHANGED <<buf, conv, QUICK_EXIT, cfgVars, alive, prior, hookLog>>

RECURSIVE Concat(_)
Concat(chunks) ==
  IF chunks = <<>> THEN <<>> ELSE Head(chunks) \o Concat(Tail(chunks))

Writers(c) == {q \in Pids : Live(q) /\ proc[q].out = <<c, proc[c].i>>}

\* close(pipefd[1]); len = read(pipefd[0], line, sizeof(line)); line[len] = 0;
\* close(pipefd[0]) leaves the pipe without a reader
C_read(c) ==
  /\ proc[c].pc = "C_read"
  /\ ~(proc[c].pipe = <<>> /\ Writers(c) # {})
  /\ proc' = [q \in Pids |->
                IF q = c THEN [proc[c] EXCEPT !.pc = "C_waitpid",
                                              !.line = Concat(proc[c].pipe),
                                              !.pipe = <<>>]
                ELSE IF q \in Writers(c) THEN [proc[q] EXCEPT !.out = Broken]
                ELSE proc[q]]
  /\ UNCHANGED <<buf, conv, QUICK_EXIT, cfgVars, err, alive, prior, hookLog>>

Reapable(c) ==
  IF proc[c].pid > 0 THEN proc[proc[c].pid].pc = "dead"
  ELSE Children(c) = {}

Reaped(t, c) ==
  IF t[c].pid > 0 THEN [t EXCEPT ![t[c].pid] = NoProc] ELSE t

\* faulty variant: the subprocess is not waited for
C_waitpid_noreap(c) ==
  /\ proc[c].pc = "C_waitpid"
  /\ LET r == addr2lineText(proc[c].line, proc[c].image, proc[c].addr) IN
       /\ ~r.crash
       /\ proc' = [proc EXCEPT ![c].pc = "C_name", ![c].line = r.line]
  /\ UNCHANGED <<buf, conv, QUICK_EXIT, cfgVars, err, alive, prior, hookLog>>

\* assert(waitpid(pid, NULL, 0) == pid), then the fallback texts
C_waitpid(c) ==
  /\ proc[c].pc = "C_waitpid"
  /\ Reapable(c)
  /\ LET r == addr2lineText(proc[c].line, proc[c].image, proc[c].addr) IN
       /\ ~r.crash
       /\ proc' = [Reaped(proc, c) EXCEPT ![c].pc = "C_name",
                                          ![c].line = r.line]
  /\ UNCHANGED <<buf, conv, QUICK_EXIT, cfgVars, err, alive, prior, hookLog>>

\* the output holds no line break: strstr returns NULL and NULL + 1 is read
C_waitpidCrash(c) ==
  /\ proc[c].pc = "C_waitpid"
  /\ Reapable(c)
  /\ addr2lineText(proc[c].line, proc[c].image, proc[c].addr).crash
  /\ proc' = Segv(Reaped(proc, c), c)
  /\ UNCHANGED <<buf, conv, QUICK_EXIT, cfgVars, err, alive, prior, hookLog>>

\* the function-name line is printed and the location text is prepared
C_name(c) ==
  /\ proc[c].pc = "C_name"
  /\ LET nl == IndexOf(proc[c].line, "\n")
         name == SubSeq(proc[c].line, 1, nl - 1)
         rest == Tail_(proc[c].line, nl + 1)
         msg == NameMsg(name, proc[c].ppid)
     IN  IF nl # 0
           THEN /\ CanWrite(c)
                /\ err' = ErrWrite(c, "name", msg)
                /\ proc' = [PipeWrite(proc, c, msg) EXCEPT
                              ![c].pc = "C_line", ![c].name = name,
                              ![c].line = LocationText(name, rest, proc[c].cwd)]
           ELSE /\ err' = err
                /\ proc' = [proc EXCEPT ![c].pc = "C_line", ![c].name = <<>>]
  /\ UNCHANGED <<buf, conv, QUICK_EXIT, cfgVars, alive, prior, hookLog>>

\* the scan for the common path root leaves the static buffer and faults
C_nameCrash(c) ==
  /\ proc[c].pc = "C_name"
  /\ CanWrite(c)
  /\ LET nl == IndexOf(proc[c].line, "\n")
         name == SubSeq(proc[c].line, 1, nl - 1)
         rest == Tail_(proc[c].line, nl + 1)
         msg == NameMsg(name, proc[c].ppid)
     IN  /\ nl # 0
         /\ cut_common_path_root_
         /\ CutCommon(name, rest, proc[c].cwd).ub
         /\ err' = ErrWrite(c, "name", msg)
         /\ proc' = Segv(PipeWrite(proc, c, msg), c)
  /\ UNCHANGED <<buf, conv, QUICK_EXIT, cfgVars, alive, prior, hookLog>>

\* the rest of the frame is printed: Safe::print2stderr(line)
C_line(c) ==
  /\ proc[c].pc = "C_line"
  /\ CanWrite(c)
  /\ LET msg == FrameLine(proc[c].line, proc[c].ppid) IN
       /\ err' = ErrWrite(c, "line", msg)
       /\ proc' = [PipeWrite(proc, c, msg) EXCEPT ![c].pc = "C_loop",
                                                  ![c].i = @ + 1]
  /\ UNCHANGED <<buf, conv, QUICK_EXIT, cfgVars, alive, prior, hookLog>>

\* after the loop: if (thread_safe_) kill(getppid(), SIGCONT)
C_cont(c) ==
  /\ proc[c].pc = "C_loop"
  /\ proc[c].i >= proc[c].trace_size
  /\ LET pp == proc[c].ppid IN
       proc' = IF thread_safe_ /\ pp # 0 /\ proc[pp].pc = "P_stopped"
                 THEN [proc EXCEPT ![c].pc = "C_exit",
                                   ![pp].pc = "P_continued"]
               ELSE IF thread_safe_ /\ pp # 0 /\ proc[pp].pc2 = "P_stopped"
                 THEN [proc EXCEPT ![c].pc = "C_exit",
                                   ![pp].pc2 = "P_continued"]
                 ELSE [proc EXCEPT ![c].pc = "C_exit"]
  /\ UNCHANGED <<buf, conv, QUICK_EXIT, cfgVars, err, alive, prior, hookLog>>

\* _Exit(EXIT_SUCCESS)
C_exit(c) ==
  /\ proc[c].pc = "C_exit"
  /\ proc' = Exited(proc, c, "_Exit0")
  /\ UNCHANGED <<buf, conv, QUICK_EXIT, cfgVars, err, alive, prior, hookLog>>

\* ---- a second thread of the crashed application
\* a signal sent to the process stops or ends all of its threads
ProcRuns(p) ==
  /\ proc[p].pc \notin {"free", "dead", "P_stopped"}
  /\ proc[p].pc2 # "P_stopped"

\* the steps of the first thread while the second one has stopped the process
MainRuns ==
  (proc[App].pc2 = "P_stopped" /\ proc'[App].pc2 = "P_stopped") =>
    proc'[App] = proc[App]

\* the application starts another thread
T_start ==
  /\ AppRuns
  /\ ProcRuns(App)
  /\ proc[App].pc2 = "none"
  /\ proc' = [proc EXCEPT ![App].pc2 = "run"]
  /\ UNCHANGED <<buf, conv, QUICK_EXIT, cfgVars, err, alive, prior, hookLog>>

\* the other thread faults: the disposition is process-wide, the handler
\* runs in the faulting thread
T_fault(sig) ==
  /\ ProcRuns(App)
  /\ proc[App].pc2 = "run"
  /\ proc[App].sa[sig] = "SignalHandler"
  /\ proc' = [proc EXCEPT ![App].pc2 = "H_fork", ![App].sig2 = sig]
  /\ UNCHANGED <<buf, conv, QUICK_EXIT, cfgVars, err, alive, prior, hookLog>>

\* pid_t forkedPid = fork() in the other thread: the child holds the
\* calling thread only
T_fork ==
  /\ ProcRuns(App)
  /\ proc[App].pc2 = "H_fork"
  /\ FreePids # {}
  /\ LET c == NewPid IN
       proc' = [proc EXCEPT
                  ![App].pc2 = "P_branch", ![App].forkedPid2 = c,
                  ![c] = [proc[App] EXCEPT
                            !.pc = "C_dup2", !.ppid = App,
                            !.sig = proc[App].sig2,
                            !.mask = {proc[App].sig2},
                            !.forkedPid = 0, !.pipe = <<>>,
                            !.origin = App, !.role = "reporter",
                            !.pc2 = "none", !.sig2 = 0, !.forkedPid2 = 0]]
  /\ UNCHANGED <<buf, conv, QUICK_EXIT, cfgVars, err, alive, prior, hookLog>>

\* kill(getpid(), SIGSTOP) in the other thread
T_stop ==
  /\ ProcRuns(App)
  /\ proc[App].pc2 = "P_branch"
  /\ thread_safe_
  /\ proc' = [proc EXCEPT ![App].pc2 = "P_stopped"]
  /\ UNCHANGED <<buf, conv, QUICK_EXIT, cfgVars, err, alive, prior, hookLog>>

\* waitpid(forkedPid, &status, WNOHANG) in the other thread
T_waitNoHang ==
  /\ ProcRuns(App)
  /\ proc[App].pc2 = "P_continued"
  /\ LET c == proc[App].forkedPid2 IN
       proc' = IF proc[c].pc = "dead" /\ proc[c].ppid = App
                 THEN [proc EXCEPT ![App].pc2 = "P_policy", ![c] = NoProc]
                 ELSE [proc EXCEPT ![App].pc2 = "P_policy"]
  /\ UNCHANGED <<buf, conv, QUICK_EXIT, cfgVars, err, alive, prior, hookLog>>

\* the termination policy in the other thread ends the process
T_policy ==
  /\ ProcRuns(App)
  /\ proc[App].pc2 = "P_policy"
  /\ proc' =
       IF QUICK_EXIT /\ quick_exit_ THEN Exited(proc, App, "quick_exit")
       ELSE IF generate_core_dump_
         THEN Exited([proc EXCEPT ![App].sa[SIGABRT] = "SIG_DFL"], App,
                     "SIGABRT")
       ELSE IF cleanup_ THEN Exited(proc, App, "exit")
       ELSE Exited(proc, App, "_Exit")
  /\ UNCHANGED <<buf, conv, QUICK_EXIT, cfgVars, err, alive, prior, hookLog>>

\* ---- the writes into the static buffers
\* ssize_t len = read(pipefd[0], line, sizeof(line)); line[len] = 0;
addr2line_read ==
  /\ buf.op = "read" /\ ~buf.done
  /\ buf' = [buf EXCEPT !.done = TRUE, !.at = buf.len]
  /\ UNCHANGED <<conv, QUICK_EXIT, cfgVars, proc, err, alive, prior, hookLog>>

\* msg[0] = 0; strcpy/strcat of the brackets, the name, the colors and the
\* pid into msg
SignalHandler_msg ==
  /\ buf.op = "msg" /\ ~buf.done
  /\ buf' = [buf EXCEPT
               !.done = TRUE,
               !.used = StrLen(NameMsg(NameOfLen(buf.len), buf.ppid)) + 1]
  /\ UNCHANGED <<conv, QUICK_EXIT, cfgVars, proc, err, alive, prior, hookLog>>

\* ------------------------------------------------------------ specifications
Addrs == {26}

\* the steps of the handler that every report takes
Handler(outputs, sizes) ==
  \/ \E p \in Pids : H_fork(p)
  \/ \E p \in Pids : P_stop(p)
  \/ \E p \in Pids : P_waitNoHang(p)
  \/ \E p \in Pids : P_core_dump(p)
  \/ \E p \in Pids : P_abort(p)
  \/ \E p \in Pids : C_dup2(p)
  \/ \E p \in Pids : C_header(p)
  \/ \E p \in Pids : C_trace(p)
  \/ \E p \in Pids : \E n \in sizes : \E dup \in BOOLEAN :
       C_backtrace(p, n, dup)
  \/ \E p \in Pids : \E cwd \in Cwds : C_check(p, cwd)
  \/ \E p \in Pids : \E im \in Images : \E a \in Addrs : C_loop(p, im, a)
  \/ \E p \in Pids : \E o \in outputs : R_exec(p, o)
  \/ \E p \in Pids : C_read(p)
  \/ \E p \in Pids : C_waitpid(p)
  \/ \E p \in Pids : C_name(p)
  \/ \E p \in Pids : C_line(p)
  \/ \E p \in Pids : C_cont(p)
  \/ \E p \in Pids : C_exit(p)

\* the fork/freeze protocol and the termination policy, with the failures
\* of the system calls
Next ==
  \/ \E v \in BOOLEAN : set_generate_core_dump(v)
  \/ \E v \in BOOLEAN : set_cleanup(v)
  \/ \E v \in BOOLEAN : set_quick_exit(v)
  \/ \E v \in BOOLEAN : set_thread_safe(v)
  \/ Construct
  \/ \E sig \in Signals : Fault(sig)
  \/ Handler({OutOk}, {2, 3})
  \/ \E p \in Pids : H_forkFails(p)
  \/ \E p \in Pids : P_wait(p)
  \/ \E p \in Pids : P_quick_exit(p)
  \/ \E p \in Pids : P_exit(p)
  \/ \E p \in Pids : P_Exit(p)
  \/ \E p \in Pids : WriteFails(p)
  \/ \E p \in Pids : C_tooFew(p)
  \/ \E p \in Pids : C_getcwdFails(p)
  \/ \E p \in Pids : C_pipeFails(p)
  \/ \E p \in Pids : \E im \in Images : \E a \in Addrs : C_forkFails(p, im, a)
  \/ \E p \in Pids : C_waitpidCrash(p)
  \/ \E p \in Pids : R_execFails(p)

Spec == Init /\ [][Next]_vars

\* the frame bound and the frames the unwinder returns
NextFrames ==
  \/ \E v \in FrameCounts : set_frames_count(v)
  \/ Construct
  \/ \E sig \in Signals : Fault(sig)
  \/ Handler({OutOk}, 0..StackDepth)
  \/ \E p \in Pids : C_tooFew(p)

SpecFrames == Init /\ [][NextFrames]_vars

\* the allocation hooks during the report
NextHooks ==
  \/ InstallTraps
  \/ Construct
  \/ \E sig \in Signals : Fault(sig)
  \/ Handler({OutOk}, {3})
  \/ \E p \in Pids : \E size \in AllocSizes : C_malloc(p, size)
  \/ \E p \in Pids : C_free(p)

SpecHooks == Init /\ [][NextHooks]_vars

\* the text of the report
NextText ==
  \/ \E v \in BOOLEAN : set_append_pid(v)
  \/ \E v \in BOOLEAN : set_color_output(v)
  \/ Construct
  \/ \E sig \in Signals : Fault(sig)
  \/ Handler({OutOk, OutUnknownFn, OutUnknownLoc, OutRelative, OutNoBreak,
              OutEmpty}, {3})
  \/ \E p \in Pids : C_dup2Fails(p)
  \/ \E p \in Pids : C_waitpidCrash(p)
  \/ \E p \in Pids : C_nameCrash(p)

SpecText == Init /\ [][NextText]_vars

\* the configuration and the installation of the handler
InitCfg ==
  \E d \in [Signals -> {"SIG_DFL", "SIG_IGN", "OtherHandler"}] : InitWith(d)

NextCfg ==
  \/ \E v \in BOOLEAN : set_generate_core_dump(v)
  \/ \E v \in BOOLEAN : set_cleanup(v)
  \/ \E v \in BOOLEAN : set_quick_exit(v)
  \/ \E v \in FrameCounts : set_frames_count(v)
  \/ \E v \in BOOLEAN : set_cut_common_path_root(v)
  \/ \E v \in BOOLEAN : set_cut_relative_paths(v)
  \/ \E v \in BOOLEAN : set_append_pid(v)
  \/ \E v \in BOOLEAN : set_thread_safe(v)
  \/ Construct
  \/ Destruct

SpecCfg == InitCfg /\ [][NextCfg]_vars

\* two threads of the application in thread-freeze mode
NextThreads ==
  \/ T_start
  \/ \E sig \in Signals : T_fault(sig)
  \/ T_fork
  \/ T_stop
  \/ T_waitNoHang
  \/ T_policy
  \/ Construct /\ MainRuns
  \/ (\E sig \in Signals : Fault(sig)) /\ MainRuns
  \/ Handler({OutOk}, {3}) /\ MainRuns

SpecThreads == Init /\ [][NextThreads]_vars

\* the paths of the location line
NextPaths ==
  \/ \E v \in BOOLEAN : set_cut_common_path_root(v)
  \/ \E v \in BOOLEAN : set_cut_relative_paths(v)
  \/ Construct
  \/ \E sig \in Signals : Fault(sig)
  \/ Handler({OutOk, OutRelative, OutInnerUp, OutSibling}, {3})
  \/ \E p \in Pids : C_nameCrash(p)

SpecPaths == Init /\ [][NextPaths]_vars

\* the conversions of namespace Safe, each called once with drawn arguments
InitConv == \E call \in Calls : InitCalls([s \in Signals |-> "SIG_DFL"], call)

NextConv ==
  \/ Safe_itoa
  \/ Safe_utoa
  \/ Safe_ptoa

SpecConv == InitConv /\ [][NextConv]_vars

\* the writes into the static buffers of the reporter
InitBuf ==
  \E w \in Writes : InitWrites([s \in Signals |-> "SIG_DFL"], NoCall, w)

NextBuf ==
  \/ \E v \in BOOLEAN : set_append_pid(v)
  \/ \E v \in BOOLEAN : set_color_output(v)
  \/ addr2line_read
  \/ SignalHandler_msg

SpecBuf == InitBuf /\ [][NextBuf]_vars

\* blocking mode: the handler with every failure of the reporter, under the
\* default termination policy
NextWait ==
  \/ \E v \in BOOLEAN : set_thread_safe(v)
  \/ Construct
  \/ \E sig \in Signals : Fault(sig)
  \/ Handler({OutOk}, {2, 3})
  \/ \E p \in Pids : H_forkFails(p)
  \/ \E p \in Pids : P_wait(p)
  \/ \E p \in Pids : WriteFails(p)
  \/ \E p \in Pids : C_tooFew(p)
  \/ \E p \in Pids : C_getcwdFails(p)
  \/ \E p \in Pids : C_pipeFails(p)
  \/ \E p \in Pids : \E im \in Images : \E a \in Addrs : C_forkFails(p, im, a)
  \/ \E p \in Pids : C_waitpidCrash(p)
  \/ \E p \in Pids : R_execFails(p)

\* fairness: the scheduler lets every process that can take a step take one
Run ==
  \/ Handler({OutOk}, {2, 3})
  \/ \E p \in Pids : H_forkFails(p)
  \/ \E p \in Pids : P_wait(p)
  \/ \E p \in Pids : WriteFails(p)
  \/ \E p \in Pids : C_tooFew(p)
  \/ \E p \in Pids : C_getcwdFails(p)
  \/ \E p \in Pids : C_pipeFails(p)
  \/ \E p \in Pids : \E im \in Images : \E a \in Addrs : C_forkFails(p, im, a)
  \/ \E p \in Pids : C_waitpidCrash(p)
  \/ \E p \in Pids : R_execFails(p)

SpecWait == Init /\ [][NextWait]_vars /\ WF_vars(Run)

\* ------------------------------------------------------------------ claims
ReportPcs == {"C_dup2", "C_header", "C_trace", "C_backtrace", "C_check",
              "C_loop", "C_read", "C_waitpid", "C_name", "C_line"}
Reporter(c) == Live(c) /\ proc[c].role = "reporter"

PolicyOutcome ==
  IF QUICK_EXIT /\ quick_exit_ THEN "quick_exit"
  ELSE IF generate_core_dump_ THEN "abort"
  ELSE IF cleanup_ THEN "exit"
  ELSE "_Exit"

\* C1: a process that leaves the policy decision of the parent branch takes
\* the one outcome the flags select in the order quick-exit, core dump
\* (SIGABRT reset to SIG_DFL, then abort), exit, _Exit; the abort then ends
\* the process by SIGABRT
C1_PolicyOrder ==
  [][\A p \in Pids :
       /\ (proc[p].pc = "P_policy" /\ proc'[p].pc # "P_policy") =>
            LET o == IF proc'[p].pc = "P_abort" THEN "abort"
                     ELSE proc'[p].status
            IN  /\ o = PolicyOutcome
                /\ o = "abort" => proc'[p].sa[SIGABRT] = "SIG_DFL"
                /\ o # "abort" => proc'[p].pc \in {"dead", "free"}
       /\ (proc[p].pc = "P_abort" /\ proc'[p].pc # "P_abort") =>
            /\ proc'[p].pc \in {"dead", "free"}
            /\ proc'[p].status = "SIGABRT"]_vars

C1_Witness ==
  /\ QUICK_EXIT /\ ~quick_exit_ /\ ~generate_core_dump_ /\ ~cleanup_
  /\ proc[App].pc = "dead" /\ proc[App].status = "_Exit"

\* C2: in thread-freeze mode a parent that stopped itself is continued by
\* its reporter child: while the parent is stopped, the reporter it forked
\* is alive and has not passed its kill(getppid(), SIGCONT)
C2_StoppedParentIsContinued ==
  \A p \in Pids :
    (proc[p].pc = "P_stopped" /\ proc[p].forkedPid > 0) =>
      \E c \in Pids : /\ Reporter(c) /\ proc[c].ppid = p
                      /\ proc[c].pc \in ReportPcs

\* C3: the number of frames the reporter of the crashed application has
\* displayed is at most frames_count_
Displayed(p) ==
  Cardinality({k \in 1..Len(err) : err[k].kind = "line" /\ err[k].parent = p})

C3_DisplayedAtMostFramesCount == Displayed(App) <= frames_count_

\* C4: the stored frame bound lies in 1..100, and a set_frames_count call
\* with a value outside (0,100] leaves every configuration field unchanged
C4_FramesCountValidated ==
  /\ [](frames_count_ \in 1..100)
  /\ [][\A v \in FrameCounts \ (1..100) :
          set_frames_count(v) => UNCHANGED cfgVars]_vars

C4_Witness == proc[App].pc # "app" /\ frames_count_ = 2

\* C5: the header names the signal that was delivered: "Segmentation fault"
\* for SIGSEGV and "Aborted" for SIGABRT, for every setting of color_output_
Contains(msg, sym) == \E j \in 1..Len(msg) : msg[j] = sym

C5_HeaderNamesSignal ==
  \A k \in 1..Len(err) :
    err[k].kind = "header" =>
      Contains(err[k].msg, IF err[k].sig = SIGSEGV THEN "Segmentation fault"
                           ELSE "Aborted")

\* C6: with color_output_ false no escape sequence is written to the report
C6_NoEscapesWithoutColor ==
  ~color_output_ =>
    \A k \in 1..Len(err) : \A j \in 1..Len(err[k].msg) :
      err[k].msg[j] \notin Escapes

\* C7: a frame line (function-name line, location line, fallback line)
\* ends, escape sequences and the line break aside, with the parent process
\* id in parentheses exactly when append_pid_ is set
Visible(msg) ==
  LET v == SelectSeq(msg, LAMBDA x : x \notin Escapes) IN
  IF Len(v) > 0 /\ v[Len(v)] = "\n" THEN SubSeq(v, 1, Len(v) - 1) ELSE v

EndsWith(s, suffix) ==
  /\ Len(s) >= Len(suffix)
  /\ SubSeq(s, Len(s) - Len(suffix) + 1, Len(s)) = suffix

C7_PidAnnotation ==
  \A k \in 1..Len(err) :
    err[k].kind \in {"name", "line"} =>
      (EndsWith(Visible(err[k].msg),
                <<"(">> \o itoa(err[k].parent) \o <<")">>) <=> append_pid_)

C7_Witness ==
  /\ append_pid_
  /\ \E k \in 1..Len(err) : err[k].kind = "name"
  /\ \E k \in 1..Len(err) :
       err[k].kind = "line" /\ Contains(err[k].msg, " at ")

\* C8: destroying the only DeathHandler restores, for both signals, the
\* disposition that was in effect right before it was constructed
C8_UninstallRestoresPrior ==
  [][(Destruct /\ alive = 1) => proc'[App].sa = prior]_vars

\* C9: during a report the hooks installed before the crash are never
\* called and no allocation of backtrace() reaches the allocator: they are
\* served by MallocHook; outside backtrace() the reporter's hooks are the
\* ones the crashed process had
C9_OriginalHooksUntouched ==
  /\ hookLog \cap {"malloc_hook", "free_hook", "malloc"} = {}
  /\ \A c \in Pids :
       (Reporter(c) /\ proc[c].pc # "C_backtrace") =>
         /\ proc[c].malloc_hook = proc[proc[c].origin].malloc_hook
         /\ proc[c].free_hook = proc[proc[c].origin].free_hook

C9_Witness ==
  /\ proc[App].malloc_hook = "malloc_hook"
  /\ "MallocHook" \in hookLog
  /\ \E c \in Pids : Reporter(c) /\ proc[c].pc = "C_loop"

C11_NonBlockingWaitReaps ==
  [][\A p \in Pids :
       (proc[p].pc = "P_continued" /\ proc'[p].pc = "P_policy") =>
         /\ proc[p].forkedPid > 0
         /\ proc[proc[p].forkedPid].pc = "dead"
         /\ proc[proc[p].forkedPid].ppid = p
         /\ proc'[proc[p].forkedPid].pc = "free"]_vars

\* C12: the abort of the core-dump branch meets the default disposition of
\* SIGABRT and ends the process, whichever signal the handler was entered
\* for; the handler is not entered again
C12_AbortTakesDefault ==
  /\ [](\A p \in Pids :
          proc[p].pc = "P_abort" =>
            /\ proc[p].sig \in Signals
            /\ proc[p].sa[SIGABRT] = "SIG_DFL")
  /\ [][\A p \in Pids :
          (proc[p].pc = "P_abort" /\ proc'[p].pc # "P_abort") =>
            /\ proc'[p].pc \in {"dead", "free"}
            /\ proc'[p].status = "SIGABRT"]_vars

C12_Witness ==
  /\ proc[App].pc = "dead" /\ proc[App].status = "SIGABRT"
  /\ proc[App].sig = SIGABRT
  /\ generate_core_dump_

\* C13: constructing a DeathHandler leaves every option at its default,
\* whatever setters were called before
Defaults == <<TRUE, TRUE, FALSE, 16, TRUE, TRUE, FALSE, TRUE, TRUE>>

C13_DefaultsAtInstallation == [][Construct => cfgVars' = Defaults]_vars

\* C14: a reporter whose unwinder returned fewer than 3 frames writes no
\* frame line and ends by the default disposition of SIGABRT, without
\* entering the handler again
C14_TooFewFramesAbort ==
  \A c \in Pids :
    (/\ proc[c].role = "reporter"
     /\ proc[c].pc \notin {"free", "C_dup2", "C_header", "C_trace",
                           "C_backtrace"}
     /\ proc[c].trace_size < 3) =>
      /\ proc[c].pc = "C_check"
           \/ (proc[c].pc = "dead" /\ proc[c].status = "SIGABRT")
      /\ \A k \in 1..Len(err) :
           err[k].parent = proc[c].origin => err[k].kind \notin {"name", "line"}

C14_Witness ==
  \E c \in Pids :
    /\ proc[c].role = "reporter" /\ proc[c].trace_size = 2
    /\ proc[c].pc = "dead" /\ proc[c].status = "SIGABRT"
    /\ proc[c].sig = SIGABRT
    /\ \E k \in 1..Len(err) : err[k].kind = "trace"

\* C15: a reporter has at most one resolver subprocess, and only between
\* the fork of addr2line() and its waitpid; the frames are handled in
\* ascending order from the first displayed frame, and the name line and
\* the location line of a frame are written before the next frame starts
Resolvers(c) ==
  {r \in Pids : /\ proc[r].pc # "free" /\ proc[r].ppid = c
                /\ proc[r].role = "resolver"}

Written(p, kind) ==
  Cardinality({k \in 1..Len(err) : err[k].kind = kind /\ err[k].parent = p})

C15_FramesAreSequential ==
  \A c \in Pids :
    (proc[c].role = "reporter" /\ proc[c].pc # "free") =>
      /\ Cardinality(Resolvers(c)) <= 1
      /\ Resolvers(c) # {} =>
           /\ proc[c].pc \in {"C_read", "C_waitpid"}
           /\ Resolvers(c) = {proc[c].pid}
           /\ proc[proc[c].pid].out \in {<<c, proc[c].i>>, Broken}
      /\ (/\ proc[c].origin = App /\ proc[c].ppid = App
          /\ proc[c].pc \in {"C_loop", "C_read", "C_waitpid", "C_name",
                             "C_line", "C_exit"}) =>
           /\ proc[c].stackOffset <= proc[c].i
           /\ proc[c].i <= proc[c].trace_size
           /\ Written(App, "line") = proc[c].i - proc[c].stackOffset
           /\ Written(App, "name")
                = proc[c].i - proc[c].stackOffset
                  + (IF proc[c].pc = "C_line" THEN 1 ELSE 0)

C15_Witness ==
  \E c \in Pids :
    /\ proc[c].role = "reporter" /\ proc[c].origin = App
    /\ proc[c].pc = "C_exit"
    /\ Written(App, "line") = 2
    /\ Children(c) = {}

\* the function name and the location of the text a reporter holds at C_name
NameOf(c) == SubSeq(proc[c].line, 1, IndexOf(proc[c].line, "\n") - 1)
LocationOf(c) == Tail_(proc[c].line, IndexOf(proc[c].line, "\n") + 1)

\* C17: relative-path collapsing removes exactly the leading run of "../"
\* segments of the path it is given, and leaves a path that does not begin
\* with "../" unchanged
RECURSIVE StripLeadingUp(_)
StripLeadingUp(path) ==
  IF IsAt(path, 1, <<".", ".", "/">>) THEN StripLeadingUp(Tail_(path, 4))
  ELSE path

C17_OnlyLeadingRunCollapsed ==
  [][\A c \in Pids :
       (/\ proc[c].pc = "C_name" /\ proc'[c].pc = "C_line"
        /\ IndexOf(proc[c].line, "\n") # 0
        /\ cut_relative_paths_) =>
         LET rest == LocationOf(c)
             a == IF cut_common_path_root_
                    THEN Tail_(rest, CutCommon(NameOf(c), rest,
                                               proc[c].cwd).cut + 1)
                    ELSE rest
         IN  Visible(proc'[c].line) = Visible(StripLeadingUp(a))]_vars

\* C18: common-root stripping removes the longest prefix the path shares
\* with the working directory (with its trailing separator) that ends at a
\* separator, leaves the path untouched when that prefix is no longer than
\* the root separator, and reads no character before the start of the path
StripRoot(path, cwd) ==
  LET K == {k \in 1..Len(path) :
              /\ k <= Len(cwd)
              /\ SubSeq(path, 1, k) = SubSeq(cwd, 1, k)
              /\ path[k] = "/"}
      m == IF K = {} THEN 0 ELSE CHOOSE k \in K : \A j \in K : j <= k
  IN  IF m > 1 THEN Tail_(path, m + 1) ELSE path

C18_CommonRootStripped ==
  [][\A c \in Pids :
       (/\ proc[c].pc = "C_name" /\ proc'[c].pc # "C_name"
        /\ IndexOf(proc[c].line, "\n") # 0
        /\ cut_common_path_root_) =>
         /\ ScanLow(NameOf(c), LocationOf(c),
                    CommonLen(proc[c].cwd, LocationOf(c), 0)) >= 0
         /\ proc'[c].pc = "C_line"
         /\ ~cut_relative_paths_ =>
              Visible(proc'[c].line)
                = Visible(StripRoot(LocationOf(c), proc[c].cwd))]_vars

\* C19: addr2line() turns every output of the resolver into the frame text:
\* a name that starts with "?" gives the fallback line "<hex address> at
\* <image> "; a name with a location that starts with "?" gives the name and
\* "<image>:<hex address>"; any other output is passed through unchanged
FrameText(line, image, addr) ==
  LET nl == IndexOf(line, "\n")
      name == IF nl = 0 THEN line ELSE SubSeq(line, 1, nl - 1)
      loc == IF nl = 0 THEN <<>> ELSE Tail_(line, nl + 1)
  IN  IF Len(name) > 0 /\ name[1] = "?"
        THEN ptoa(addr) \o <<" at ">> \o image \o <<" ">>
      ELSE IF Len(loc) > 0 /\ loc[1] = "?"
        THEN name \o <<"\n">> \o image \o <<":">> \o ptoa(addr) \o <<"\n">>
      ELSE line

C19_ResolverOutputCases ==
  [][\A c \in Pids :
       (proc[c].pc = "C_waitpid" /\ proc'[c].pc # "C_waitpid") =>
         /\ proc'[c].pc = "C_name"
         /\ Visible(proc'[c].line)
              = Visible(FrameText(proc[c].line, proc[c].image,
                                  proc[c].addr))]_vars

\* C20: itoa returns the signed decimal text of its argument, utoa the text
\* of its argument in the radix asked for, ptoa "0x" and the hexadecimal
\* digits of the pointer value; 0 is written "0"
IsNumeral(s, base) ==
  /\ Len(s) >= 1
  /\ \A k \in 1..Len(s) : \E d \in 0..(base - 1) : Digit(d) = s[k]
  /\ Len(s) > 1 => s[1] # "0"

RECURSIVE NumVal(_, _)
NumVal(s, base) ==
  IF s = <<>> THEN 0
  ELSE NumVal(SubSeq(s, 1, Len(s) - 1), base) * base
       + (CHOOSE d \in 0..15 : Digit(d) = s[Len(s)])

TextOf(s, base, val) == IsNumeral(s, base) /\ NumVal(s, base) = val

C20_ConversionsReturnText ==
  conv.done =>
    CASE conv.fn = "itoa" ->
           IF conv.val < 0
             THEN /\ Len(conv.res) > 1 /\ conv.res[1] = "-"
                  /\ TextOf(Tail(conv.res), 10, -conv.val)
             ELSE TextOf(conv.res, 10, conv.val)
      [] conv.fn = "utoa" -> TextOf(conv.res, conv.base, conv.val)
      [] conv.fn = "ptoa" ->
           /\ Len(conv.res) > 2
           /\ SubSeq(conv.res, 1, 2) = <<"0", "x">>
           /\ TextOf(Tail_(conv.res, 3), 16, conv.val)

\* C16: in thread-freeze mode a crashed process has at most one reporter
\* child at a time, however the fatal signals of its two threads interleave
C16_OneReportInFlight ==
  thread_safe_ =>
    Cardinality({c \in Pids : /\ Reporter(c) /\ proc[c].origin = App
                              /\ proc[c].ppid = App}) <= 1

\* C21: the handler runs once per crash: no process forked during a report,
\* the reporter child or a resolver subprocess, enters SignalHandler again
C21_HandlerRunsOncePerCrash ==
  \A p \in Pids :
    proc[p].role \in {"reporter", "resolver"} => proc[p].pc # "H_fork"

\* C22: every write into a static buffer stays inside it: the terminator
\* after the read lands at an index in 0..4095 of line[4096], and the
\* function-name line with its terminator fits in msg[512]
C22_WritesStayInside ==
  buf.done =>
    /\ buf.op = "read" => buf.at \in 0..(LineSize - 1)
    /\ buf.op = "msg" => buf.used <= MsgSize
====
